---------------------------- MODULE Spec2Model ----------------------------
(***************************************************************************)
(* A model of the go-wiki repository: the wiki server of                   *)
(* src/unnamed/part_000 (routes /, /view/, /edit/, /save/, /static/; pages *)
(* stored as data/<title>.txt; the view pipeline escape -> detect links -> *)
(* anchors) and the save/load driver of src/unnamed/part_001.  src/wiki.go *)
(* is an earlier state of the server: the same makeHandler, editHandler    *)
(* and saveHandler, a viewHandler without link rewriting, files in the     *)
(* working directory; it has no definitions of its own here.               *)
(*                                                                         *)
(* Text is modelled as a sequence of one-character strings, so that        *)
(* escaping, matching and substitution are computed character by character *)
(* as the Go code and the library routines it calls compute them.          *)
(*                                                                         *)
(* Storage: ioutil.WriteFile is an open that creates and truncates the     *)
(* file, a write at offset 0 and a close, and the file is shared between   *)
(* these calls; each call is one step.  ioutil.ReadFile is one step: pages *)
(* are never deleted, so reading at the time of the read is all a reader   *)
(* can see.  A call can fail: the open (nothing changes), the write (a     *)
(* prefix of the data is in the file) or the close (all of it is).         *)
(***************************************************************************)
EXTENDS Naturals, Sequences, FiniteSets

\* ------------------------------------------------------------- bounds ---
\* Longest page body over the full alphabet given to the view pipeline.
MaxLen == 4
\* Longest page body over the bracket alphabet given to the view pipeline.
MaxMarkerLen == 6

\* --------------------------------------------------------- characters ---
Lower == {"a","b","c","d","e","f","g","h","i","j","k","l","m",
          "n","o","p","q","r","s","t","u","v","w","x","y","z"}
Upper == {"A","B","C","D","E","F","G","H","I","J","K","L","M",
          "N","O","P","Q","R","S","T","U","V","W","X","Y","Z"}
Digit == {"0","1","2","3","4","5","6","7","8","9"}
\* The character class [a-zA-Z0-9] of validPath and linkPath.
Alnum == Lower \cup Upper \cup Digit

\* The byte 0 and the replacement character U+FFFD, one token each.
NUL == "NUL"
RuneFFFD == "U+FFFD"

\* The characters bodies are enumerated over: the five escaped characters,
\* the two brackets, an alphanumeric and a space.
Chars == {"<", ">", "&", "'", "\"", "[", "]", "a", " "}
\* The characters the longer bracket-only bodies are enumerated over.
MarkerChars == {"[", "]", "a", "7"}

SeqsUpTo(S, n) == UNION {[1..k -> S] : k \in 0..n}

RECURSIVE Concat(_)
\* The concatenation of a sequence of sequences.
Concat(ss) == IF ss = <<>> THEN <<>> ELSE Head(ss) \o Concat(Tail(ss))

\* ------------------------------------------------- the view pipeline ---
\* template.HTMLEscapeString: the replacement of one byte.
EscapeChar(c) ==
  CASE c = NUL  -> <<RuneFFFD>>
    [] c = "\"" -> <<"&", "#", "3", "4", ";">>
    [] c = "'"  -> <<"&", "#", "3", "9", ";">>
    [] c = "&"  -> <<"&", "a", "m", "p", ";">>
    [] c = "<"  -> <<"&", "l", "t", ";">>
    [] c = ">"  -> <<"&", "g", "t", ";">>
    [] OTHER    -> <<c>>

\* template.HTMLEscapeString(string(p.Body)): every byte replaced in place.
HTMLEscapeString(s) == Concat([i \in 1..Len(s) |-> EscapeChar(s[i])])

RECURSIVE AlnumRun(_, _)
\* The greedy match of [a-zA-Z0-9]* at position i: the length of the run.
AlnumRun(s, i) ==
  IF i <= Len(s) /\ s[i] \in Alnum THEN 1 + AlnumRun(s, i + 1) ELSE 0

\* The least number of characters the group ([a-zA-Z0-9]+) must take.
MinTitleLen == 1

\* A faulty variant: linkPath written with * for +: the group may be empty.
MatchAt_Star(s, i) ==
  LET n == AlnumRun(s, i + 1) IN
  IF /\ i <= Len(s)
     /\ s[i] = "["
     /\ i + n + 1 <= Len(s)
     /\ s[i + n + 1] = "]"
  THEN n + 2 ELSE 0

\* linkPath anchored at position i: the length of the match of
\* \[([a-zA-Z0-9]+)\] starting there, 0 when there is none.
MatchAt(s, i) ==
  LET n == AlnumRun(s, i + 1) IN
  IF /\ i <= Len(s)
     /\ s[i] = "["
     /\ n >= MinTitleLen
     /\ i + n + 1 <= Len(s)
     /\ s[i + n + 1] = "]"
  THEN n + 2 ELSE 0

RECURSIVE FindIndex(_, _)
\* The start of the leftmost match of linkPath at or after pos, 0 if none.
FindIndex(s, pos) ==
  IF pos > Len(s) THEN 0
  ELSE IF MatchAt(s, pos) > 0 THEN pos
  ELSE FindIndex(s, pos + 1)

\* linkPath.FindStringSubmatch(str): <<whole match, group 1>> of the leftmost
\* match in str, <<>> when str has none.
FindStringSubmatch(str) ==
  LET i == FindIndex(str, 1) IN
  IF i = 0 THEN <<>>
  ELSE LET n == MatchAt(str, i) IN
       <<SubSeq(str, i, i + n - 1), SubSeq(str, i + 1, i + n - 2)>>

\* The text of the generated anchor for title t.
Anchor(t) ==
  <<"<", "a", " ", "h", "r", "e", "f", "=", "\"", "/", "v", "i", "e", "w", "/">>
  \o t \o <<"\"", ">">> \o t \o <<"<", "/", "a", ">">>

\* A faulty variant: the anchor is built from the whole match, brackets included.
LinkRepl_WholeMatch(str) ==
  LET matched == FindStringSubmatch(str) IN Anchor(matched[1])

\* The callback given to ReplaceAllFunc: the matched bytes are matched again
\* and the anchor is built from group 1.
LinkRepl(str) ==
  LET matched == FindStringSubmatch(str) IN Anchor(matched[2])

RECURSIVE FindAll(_, _)
\* The matches ReplaceAllFunc visits from pos on, left to right: the scan
\* resumes right after each match.
FindAll(s, pos) ==
  LET i == FindIndex(s, pos) IN
  IF i = 0 THEN <<>>
  ELSE LET n == MatchAt(s, i) IN
       <<[start |-> i, end |-> i + n - 1,
          title |-> FindStringSubmatch(SubSeq(s, i, i + n - 1))[2]]>>
       \o FindAll(s, i + n)

RECURSIVE ReplaceAllFrom(_, _)
\* linkPath.ReplaceAllFunc(s, LinkRepl) from pos on: the unmatched text is
\* copied and each match is replaced by what the callback returns.
ReplaceAllFrom(s, pos) ==
  LET i == FindIndex(s, pos) IN
  IF i = 0 THEN SubSeq(s, pos, Len(s))
  ELSE LET n == MatchAt(s, i) IN
       SubSeq(s, pos, i - 1) \o LinkRepl(SubSeq(s, i, i + n - 1))
         \o ReplaceAllFrom(s, i + n)

ReplaceAllFunc(s) == ReplaceAllFrom(s, 1)

\* A faulty variant: the body is handed to link detection as it was loaded.
EscapedBody_Raw(body) == body

\* The text viewHandler hands to link detection.
EscapedBody(body) == HTMLEscapeString(body)

\* The DisplayBody viewHandler computes from a loaded body.
DisplayBodyOf(body) == ReplaceAllFunc(EscapedBody(body))


\* --------------------------------------------------------------- state ---
VARIABLES
  \* the view pipeline, step by step (viewHandler of part_000, lines 77-83)
  stage,        \* "off", "loaded", "escaped" or "linked"
  rawBody,      \* p.Body as loaded
  escapedBody,  \* escapedBody
  links,        \* the matches ReplaceAllFunc visited, in order
  displayBody,  \* p.DisplayBody
  \* the server and its storage
  files,        \* file name -> <<>> (no such file) or <<content>>
  inflight,     \* worker -> <<>> (idle) or <<the save it is writing>>
  resp,         \* the response of the request completed last
  served,       \* requests received so far
  serial,       \* whether a request is sent only after the last was answered
  \* history, read by the properties only
  lastSaved,    \* file name -> <<>> or <<body of the last successful save>>,
                \* kept in serial runs
  group,        \* file name -> the saves writing it now and those that
                \* overlapped them (empty when nobody writes the file)
  \* the driver of part_001
  cliPc, cliErr, cliOut, cliRuns

vars == <<stage, rawBody, escapedBody, links, displayBody,
          files, inflight, resp, served, serial, lastSaved, group,
          cliPc, cliErr, cliOut, cliRuns>>

renderVars == <<stage, rawBody, escapedBody, links, displayBody>>
serverVars == <<inflight, resp, served, serial, lastSaved, group>>
cliVars    == <<cliPc, cliErr, cliOut, cliRuns>>

\* An optional value: <<>> is none, <<v>> is v.
None == <<>>
Some(v) == <<v>>

\* ------------------------------------------------ the pipeline, stepped ---
\* The bodies of the examples of the specification's section 8.
ExampleBodies ==
  { <<"S","e","e"," ","[","H","o","m","e","]"," ","a","n","d"," ",
      "[","P","a","g","e","2","]",".">>,
    <<"<","s","c","r","i","p","t",">","[","X","]",
      "<","/","s","c","r","i","p","t",">">>,
    <<"[","a"," ","b","]">>,
    <<"[","[","a","]","]","'","[","]">>,
    <<NUL, "[", "Z", "9", "]", "&">> }

RenderInputs ==
  SeqsUpTo(Chars, MaxLen) \cup SeqsUpTo(MarkerChars, MaxMarkerLen)
    \cup ExampleBodies

\* viewHandler, line 77.
ViewEscape ==
  /\ stage = "loaded"
  /\ escapedBody' = EscapedBody(rawBody)
  /\ stage' = "escaped"
  /\ UNCHANGED <<rawBody, links, displayBody>>
  /\ UNCHANGED <<files, serverVars, cliVars>>

\* viewHandler, lines 79-83.
ViewLink ==
  /\ stage = "escaped"
  /\ links' = FindAll(escapedBody, 1)
  /\ displayBody' = ReplaceAllFunc(escapedBody)
  /\ stage' = "linked"
  /\ UNCHANGED <<rawBody, escapedBody>>
  /\ UNCHANGED <<files, serverVars, cliVars>>

RenderNext == ViewEscape \/ ViewLink

\* --------------------------------------------------------- the server ---
\* Requests received in one run.
MaxReqs == 3

\* The goroutines that can be inside a save at the same time.
Workers == {"w1", "w2"}

ViewPrefix   == <<"/", "v", "i", "e", "w", "/">>
EditPrefix   == <<"/", "e", "d", "i", "t", "/">>
SavePrefix   == <<"/", "s", "a", "v", "e", "/">>
StaticPrefix == <<"/", "s", "t", "a", "t", "i", "c", "/">>
DataDir      == <<"d", "a", "t", "a", "/">>
TxtSuffix    == <<".", "t", "x", "t">>

\* What follows /view/, /edit/ or /save/ in the request paths: nothing, the
\* titles a and aa, and texts validPath rejects.
Rests == {<<>>, <<"a">>, <<"a", "a">>, <<"a", "-">>, <<"a", "/">>,
          <<"/", "a">>}
\* The request paths: every route prefix with every rest, the root, a path
\* no pattern but "/" matches, and a static file.
Paths ==
  {pre \o r : pre \in {ViewPrefix, EditPrefix, SavePrefix}, r \in Rests}
    \cup {<<"/">>, <<"/", "a">>, StaticPrefix \o <<"a">>,
          <<"/", "v", "i", "e", "w">>}
\* The bodies a save request posts.
Bodies == {<<>>, <<"<">>, <<"a">>, <<"[", "a", "]">>}

HasPrefix(s, pre) ==
  Len(s) >= Len(pre) /\ SubSeq(s, 1, Len(pre)) = pre
TrimPrefix(s, pre) == SubSeq(s, Len(pre) + 1, Len(s))

\* validPath.FindStringSubmatch(path) for
\* ^/(edit|save|view)/([a-zA-Z0-9]+)$ : <<path, verb, title>>, or <<>> (nil).
ValidPathSubmatch(path) ==
  LET verbs == {<<"e","d","i","t">>, <<"s","a","v","e">>, <<"v","i","e","w">>}
      hit == {v \in verbs :
                LET pre == <<"/">> \o v \o <<"/">> IN
                /\ HasPrefix(path, pre)
                /\ Len(path) > Len(pre)
                /\ AlnumRun(path, Len(pre) + 1) = Len(path) - Len(pre)}
  IN IF hit = {} THEN <<>>
     ELSE LET v == CHOOSE v \in hit : TRUE IN
          <<path, v, TrimPrefix(path, <<"/">> \o v \o <<"/">>)>>

RECURSIVE CleanPath(_)
\* http.ServeMux's cleaning of a request path, for the paths enumerated here
\* (which hold no . or .. element): repeated slashes become one.
CleanPath(path) ==
  IF Len(path) < 2 THEN path
  ELSE IF path[1] = "/" /\ path[2] = "/" THEN CleanPath(Tail(path))
  ELSE <<path[1]>> \o CleanPath(Tail(path))

\* The patterns main registers with a handler made by makeHandler or with
\* the file server.
SubtreePatterns == {ViewPrefix, EditPrefix, SavePrefix, StaticPrefix}

\* Where http.ServeMux sends the client instead of calling a handler: to the
\* cleaned path when the path is not clean, to path/ when only the pattern
\* path/ is registered; none otherwise.
MuxRedirect(path) ==
  IF CleanPath(path) # path THEN Some(CleanPath(path))
  ELSE IF path \o <<"/">> \in SubtreePatterns THEN Some(path \o <<"/">>)
  ELSE None

\* The patterns main registers, as http.ServeMux resolves them: the longest
\* pattern that is a prefix of the path.
Route(path) ==
  IF MuxRedirect(path) # None THEN "mux"
  ELSE IF HasPrefix(path, StaticPrefix) THEN "static"
  ELSE IF HasPrefix(path, ViewPrefix) THEN "view"
  ELSE IF HasPrefix(path, EditPrefix) THEN "edit"
  ELSE IF HasPrefix(path, SavePrefix) THEN "save"
  ELSE "index"

\* A faulty variant: the title is cut from the path and passed on unvalidated.
makeHandler_Unvalidated(path) ==
  Some(TrimPrefix(path, IF Route(path) = "static" THEN StaticPrefix
                        ELSE ViewPrefix))

\* The closure of makeHandler: the title it passes to fn, none when it
\* answers http.NotFound instead.
makeHandler(path) ==
  LET m == ValidPathSubmatch(path) IN
  IF m = <<>> THEN None ELSE Some(m[3])

\* "data/" + title + ".txt"
FileName(title) == DataDir \o title \o TxtSuffix
ServerFiles == {FileName(r) : r \in Rests}
\* The file of part_001: "TestPage" + ".txt" in the working directory.
TestPage == <<"T", "e", "s", "t", "P", "a", "g", "e">>
CliFile == TestPage \o TxtSuffix
FileNames == ServerFiles \cup {CliFile}

\* ioutil.WriteFile, first call: OpenFile(name, O_WRONLY|O_CREATE|O_TRUNC).
\* The file exists and is empty afterwards.
OpenTrunc(fs, name) == [fs EXCEPT ![name] = Some(<<>>)]

\* ioutil.WriteFile, second call: f.Write(data) at offset 0 of the open file,
\* of which the first k bytes reach the file (k = Len(data) when it succeeds).
\* Bytes of the file beyond k are left as they are.
WriteAt0(fs, name, data, k) ==
  LET old == IF fs[name] = None THEN <<>> ELSE fs[name][1] IN
  [fs EXCEPT ![name] =
     Some(SubSeq(data, 1, k) \o SubSeq(old, k + 1, Len(old)))]

\* loadPage: ioutil.ReadFile; none stands for (nil, err).
loadPage(fs, title) == fs[FileName(title)]

\* The templates parsed at start-up.
ParsedTemplates == {"edit", "view"}

NoPage == [Title |-> <<>>, Body |-> <<>>, DisplayBody |-> <<>>]
NoResp ==
  [kind |-> "none", status |-> 0, fn |-> "none", path |-> <<>>,
   title |-> <<>>, form |-> <<>>, location |-> <<>>, tmpl |-> "none",
   page |-> NoPage, loaded |-> None, err |-> FALSE]

\* http.NotFound
NotFound(path) == [NoResp EXCEPT !.kind = "notfound", !.status = 404, !.path = path]

\* http.Redirect(w, r, location, http.StatusFound)
Redirect(r, location) ==
  [r EXCEPT !.kind = "redirect", !.status = 302, !.location = location]

\* http.Error(w, err.Error(), http.StatusInternalServerError)
Error500(r) == [r EXCEPT !.kind = "error", !.status = 500]

\* renderTemplate: templates.ExecuteTemplate(w, tmpl+".html", p) fails for a
\* template that was not parsed, and the failure is answered with a 500.
renderTemplate(r, tmpl, p) ==
  IF tmpl \notin ParsedTemplates
  THEN Error500([r EXCEPT !.tmpl = tmpl])
  ELSE [r EXCEPT !.kind = "render", !.status = 200, !.tmpl = tmpl, !.page = p]

\* The request as a handler called through makeHandler sees it.
Called(fn, path, title) ==
  [NoResp EXCEPT !.fn = fn, !.path = path, !.title = title]

\* indexHandler
indexHandler(path) ==
  Redirect([NoResp EXCEPT !.fn = "indexHandler", !.path = path],
           ViewPrefix \o <<"i", "n", "d", "e", "x">>)

\* A faulty variant: a failed load is rendered as an empty page, not redirected.
viewHandler_NoRedirect(path, title, fs) ==
  LET p == loadPage(fs, title)
      r == [Called("viewHandler", path, title) EXCEPT !.loaded = p]
  IN renderTemplate(r, "view",
       IF p = None
       THEN [NoPage EXCEPT !.Title = title]
       ELSE [Title |-> title, Body |-> p[1],
             DisplayBody |-> DisplayBodyOf(p[1])])

\* viewHandler
viewHandler(path, title, fs) ==
  LET p == loadPage(fs, title)
      r == [Called("viewHandler", path, title) EXCEPT !.loaded = p]
  IN IF p = None
     THEN Redirect(r, EditPrefix \o title)
     ELSE renderTemplate(r, "view",
            [Title |-> title, Body |-> p[1],
             DisplayBody |-> DisplayBodyOf(p[1])])

\* A faulty variant: a failed load is answered as viewHandler answers it.
editHandler_Redirect(path, title, fs) ==
  LET p == loadPage(fs, title)
      r == [Called("editHandler", path, title) EXCEPT !.loaded = p]
  IN IF p = None
     THEN Redirect(r, EditPrefix \o title)
     ELSE renderTemplate(r, "edit",
            [Title |-> title, Body |-> p[1], DisplayBody |-> <<>>])

\* editHandler
editHandler(path, title, fs) ==
  LET p == loadPage(fs, title)
      r == [Called("editHandler", path, title) EXCEPT !.loaded = p]
  IN renderTemplate(r, "edit",
       IF p = None
       THEN [NoPage EXCEPT !.Title = title]
       ELSE [Title |-> title, Body |-> p[1], DisplayBody |-> <<>>])

\* saveHandler after p.save() returned: err is whether it returned an error.
saveHandler(path, title, body, err) ==
  LET r == [Called("saveHandler", path, title) EXCEPT !.form = body, !.err = err]
  IN IF err THEN Error500(r) ELSE Redirect(r, ViewPrefix \o title)

\* The saves in flight on a file, other than worker w's.
OthersOn(name, w) ==
  {v \in Workers \ {w} :
     inflight[v] # None /\ FileName(inflight[v][1].title) = name}
WritersOn(name) ==
  {v \in Workers : inflight[v] # None /\ FileName(inflight[v][1].title) = name}

NoGroup == [bodies |-> {}, before |-> None, n |-> 0, failed |-> FALSE]

Receive ==
  /\ served < MaxReqs
  /\ serial => \A w \in Workers : inflight[w] = None
  /\ served' = served + 1
  /\ serial' = serial

\* A request to /view/, /edit/ or /save/ that validPath rejects.
NotFoundReq(path) ==
  /\ Receive
  /\ Route(path) \in {"view", "edit", "save"}
  /\ makeHandler(path) = None
  /\ resp' = NotFound(path)
  /\ UNCHANGED <<files, inflight, lastSaved, group>>
  /\ UNCHANGED <<renderVars, cliVars>>

\* A request http.ServeMux answers itself, with a 301 to the path it wants.
MuxRedirectReq(path) ==
  /\ Receive
  /\ Route(path) = "mux"
  /\ resp' = [NoResp EXCEPT !.kind = "redirect", !.status = 301,
                            !.path = path, !.location = MuxRedirect(path)[1]]
  /\ UNCHANGED <<files, inflight, lastSaved, group>>
  /\ UNCHANGED <<renderVars, cliVars>>

\* A request that only the pattern "/" matches.
IndexReq(path) ==
  /\ Receive
  /\ Route(path) = "index"
  /\ resp' = indexHandler(path)
  /\ UNCHANGED <<files, inflight, lastSaved, group>>
  /\ UNCHANGED <<renderVars, cliVars>>

\* A request under /static/: the file server of the directory static.
StaticReq(path) ==
  /\ Receive
  /\ Route(path) = "static"
  /\ resp' = [NoResp EXCEPT !.kind = "static", !.status = 200,
                            !.fn = "fileServer", !.path = path]
  /\ UNCHANGED <<files, inflight, lastSaved, group>>
  /\ UNCHANGED <<renderVars, cliVars>>

ViewReq(path) ==
  /\ Receive
  /\ Route(path) = "view"
  /\ makeHandler(path) # None
  /\ resp' = viewHandler(path, makeHandler(path)[1], files)
  /\ UNCHANGED <<files, inflight, lastSaved, group>>
  /\ UNCHANGED <<renderVars, cliVars>>

EditReq(path) ==
  /\ Receive
  /\ Route(path) = "edit"
  /\ makeHandler(path) # None
  /\ resp' = editHandler(path, makeHandler(path)[1], files)
  /\ UNCHANGED <<files, inflight, lastSaved, group>>
  /\ UNCHANGED <<renderVars, cliVars>>

\* saveHandler up to the first call of ioutil.WriteFile: the file is opened
\* and truncated, or the open fails and the handler answers.
SaveOpen(w, path, body) ==
  /\ Receive
  /\ inflight[w] = None
  /\ Route(path) = "save"
  /\ makeHandler(path) # None
  /\ LET title == makeHandler(path)[1]
         name == FileName(title)
     IN \/ /\ files' = OpenTrunc(files, name)
           /\ inflight' = [inflight EXCEPT ![w] =
                             Some([path |-> path, title |-> title, body |-> body])]
           /\ group' = [group EXCEPT ![name] =
                          IF OthersOn(name, w) = {}
                          THEN [bodies |-> {body}, before |-> files[name],
                                n |-> 1, failed |-> FALSE]
                          ELSE [@ EXCEPT !.bodies = @ \cup {body}, !.n = @ + 1]]
           /\ UNCHANGED <<resp, lastSaved>>
        \/ /\ resp' = saveHandler(path, title, body, TRUE)
           /\ UNCHANGED <<files, inflight, lastSaved, group>>
  /\ UNCHANGED <<renderVars, cliVars>>

\* The rest of ioutil.WriteFile and of saveHandler: the write (all of the
\* body, or the first k bytes and an error), the close (which can fail after
\* a full write), and the answer.
SaveWrite(w) ==
  /\ inflight[w] # None
  /\ LET s == inflight[w][1]
         name == FileName(s.title)
     IN /\ \/ /\ files' = WriteAt0(files, name, s.body, Len(s.body))
              /\ \/ /\ resp' = saveHandler(s.path, s.title, s.body, FALSE)
                    /\ lastSaved' = IF serial
                                    THEN [lastSaved EXCEPT ![name] = Some(s.body)]
                                    ELSE lastSaved
                 \/ /\ resp' = saveHandler(s.path, s.title, s.body, TRUE)
                    /\ lastSaved' = lastSaved
           \/ \E k \in 0..(Len(s.body) - 1) :
                /\ files' = WriteAt0(files, name, s.body, k)
                /\ resp' = saveHandler(s.path, s.title, s.body, TRUE)
                /\ lastSaved' = lastSaved
        /\ group' = [group EXCEPT ![name] =
                       IF OthersOn(name, w) = {} THEN NoGroup
                       ELSE [@ EXCEPT !.failed = @ \/ resp'.err]]
  /\ inflight' = [inflight EXCEPT ![w] = None]
  /\ UNCHANGED <<served, serial>>
  /\ UNCHANGED <<renderVars, cliVars>>

\* A request is received and handled up to its first wait on storage.
Request ==
  \E path \in Paths :
    \/ MuxRedirectReq(path)
    \/ NotFoundReq(path)
    \/ IndexReq(path)
    \/ StaticReq(path)
    \/ ViewReq(path)
    \/ EditReq(path)
    \/ \E w \in Workers, body \in Bodies : SaveOpen(w, path, body)

\* Requests handled one goroutine each.
ServerNext == Request \/ \E w \in Workers : SaveWrite(w)


\* ------------------------------------------------ the driver, part_001 ---
\* "This is a sample page."
\* Runs of the driver, one after the other, in the same directory.
MaxRuns == 2

SamplePage ==
  <<"T","h","i","s"," ","i","s"," ","a"," ","s","a","m","p","l","e"," ",
    "p","a","g","e",".">>

\* main, p1.save(): OpenFile of ioutil.WriteFile. The error save returns is
\* kept in cliErr; main discards it and goes on to loadPage.
MainSaveOpen ==
  /\ cliPc = "save"
  /\ \/ /\ files' = OpenTrunc(files, CliFile)
        /\ cliPc' = "write"
        /\ cliErr' = cliErr
     \/ /\ files' = files
        /\ cliPc' = "load"
        /\ cliErr' = TRUE
  /\ UNCHANGED <<cliOut, cliRuns>>
  /\ UNCHANGED <<renderVars, serverVars>>

\* main, p1.save(): the write and the close of ioutil.WriteFile.
MainSaveWrite ==
  /\ cliPc = "write"
  /\ \/ /\ files' = WriteAt0(files, CliFile, SamplePage, Len(SamplePage))
        /\ cliErr' \in BOOLEAN
     \/ \E k \in 0..(Len(SamplePage) - 1) :
          /\ files' = WriteAt0(files, CliFile, SamplePage, k)
          /\ cliErr' = TRUE
  /\ cliPc' = "load"
  /\ UNCHANGED <<cliOut, cliRuns>>
  /\ UNCHANGED <<renderVars, serverVars>>

\* main, p2, _ := loadPage("TestPage"); fmt.Println(string(p2.Body)).
\* p2 is nil when the load fails, and p2.Body then panics.
MainLoadPrint ==
  /\ cliPc = "load"
  /\ LET p2 == files[CliFile] IN
     IF p2 = None
     THEN cliPc' = "panic" /\ cliOut' = cliOut
     ELSE cliPc' = "exit" /\ cliOut' = Some(p2[1])
  /\ UNCHANGED <<files, cliErr, cliRuns>>
  /\ UNCHANGED <<renderVars, serverVars>>

\* The driver is run again.
MainStart ==
  /\ cliPc \in {"exit", "panic"}
  /\ cliRuns < MaxRuns
  /\ cliRuns' = cliRuns + 1
  /\ cliPc' = "save"
  /\ cliErr' = FALSE
  /\ cliOut' = None
  /\ UNCHANGED files
  /\ UNCHANGED <<renderVars, serverVars>>

CliNext == MainSaveOpen \/ MainSaveWrite \/ MainLoadPrint \/ MainStart

\* ------------------------------------------------------ specifications ---
RenderOff ==
  /\ stage = "off"
  /\ rawBody = <<>>
  /\ escapedBody = <<>>
  /\ links = <<>>
  /\ displayBody = <<>>

ServerIdle ==
  /\ inflight = [w \in Workers |-> None]
  /\ resp = NoResp
  /\ served = 0
  /\ serial = FALSE
  /\ lastSaved = [n \in FileNames |-> None]
  /\ group = [n \in FileNames |-> NoGroup]

CliOff ==
  /\ cliPc = "off"
  /\ cliErr = FALSE
  /\ cliOut = None
  /\ cliRuns = 0

\* The server starts on an empty data directory; its clients send requests
\* at any time.
Init ==
  /\ files = [n \in FileNames |-> None]
  /\ ServerIdle
  /\ RenderOff
  /\ CliOff

\* The same, with every request sent after the answer to the one before.
SeqInit ==
  /\ files = [n \in FileNames |-> None]
  /\ inflight = [w \in Workers |-> None]
  /\ resp = NoResp
  /\ served = 0
  /\ serial = TRUE
  /\ lastSaved = [n \in FileNames |-> None]
  /\ group = [n \in FileNames |-> NoGroup]
  /\ RenderOff
  /\ CliOff

\* viewHandler has loaded a page with some body.
RenderInit ==
  /\ stage = "loaded"
  /\ rawBody \in RenderInputs
  /\ escapedBody = <<>>
  /\ links = <<>>
  /\ displayBody = <<>>
  /\ files = [n \in FileNames |-> None]
  /\ ServerIdle
  /\ CliOff

\* The driver starts in a directory where TestPage.txt is absent or holds
\* what an earlier run or an editor left.
CliInit ==
  /\ cliPc = "save"
  /\ cliErr = FALSE
  /\ cliOut = None
  /\ cliRuns = 1
  /\ \E c \in {None} \cup {Some(b) : b \in Bodies \cup {SamplePage}} :
       files = [n \in FileNames |-> IF n = CliFile THEN c ELSE None]
  /\ ServerIdle
  /\ RenderOff

Next == ServerNext

\* The server, its requests handled concurrently.
Spec == Init /\ [][Next]_vars
\* The server, its requests handled one at a time.
SpecSeq == SeqInit /\ [][Next]_vars
\* The view pipeline on every body of RenderInputs.
SpecRender == RenderInit /\ [][RenderNext]_vars
\* The driver of part_001.
SpecCli == CliInit /\ [][CliNext]_vars

\* ---------------------------------------------------------- properties ---
\* Recognisers of what a browser reads in a display body. They are written
\* from the HTML the claims name, not from the pipeline's operators.
AtPos(s, i, t) ==
  i + Len(t) - 1 <= Len(s) /\ SubSeq(s, i, i + Len(t) - 1) = t

AnchorOpen  == <<"<","a"," ","h","r","e","f","=","\"","/","v","i","e","w","/">>
AnchorMid   == <<"\"", ">">>
AnchorClose == <<"<", "/", "a", ">">>

RECURSIVE RunOf(_, _)
\* The number of characters of [a-zA-Z0-9] at position i and after it.
RunOf(s, i) ==
  IF i <= Len(s) /\ s[i] \in Lower \cup Upper \cup Digit
  THEN 1 + RunOf(s, i + 1) ELSE 0

\* The title T of an anchor <a href="/view/T">T</a> at position i of d, with
\* T non-empty and alphanumeric; <<>> when no such anchor starts there.
AnchorTitleAt(d, i) ==
  LET n == RunOf(d, i + Len(AnchorOpen))
      t == SubSeq(d, i + Len(AnchorOpen), i + Len(AnchorOpen) + n - 1)
  IN IF /\ AtPos(d, i, AnchorOpen)
        /\ n >= 1
        /\ AtPos(d, i + Len(AnchorOpen) + n, AnchorMid \o t \o AnchorClose)
     THEN t ELSE <<>>
AnchorLen(t) == Len(AnchorOpen) + Len(AnchorMid) + Len(AnchorClose) + 2 * Len(t)

\* The five entities and the characters they stand for.
Entities ==
  { <<"<",  <<"&","l","t",";">> >>,
    <<">",  <<"&","g","t",";">> >>,
    <<"&",  <<"&","a","m","p",";">> >>,
    <<"'",  <<"&","#","3","9",";">> >>,
    <<"\"", <<"&","#","3","4",";">> >> }
EntityAt(d, i) == {e \in Entities : AtPos(d, i, e[2])}
Special == {"<", ">", "&", "'", "\""}
IsSpecial(c) == c \in Special

RECURSIVE Live(_, _)
\* The characters of d from i on that are markup and belong neither to a
\* generated anchor nor to an entity.
Live(d, i) ==
  IF i > Len(d) THEN <<>>
  ELSE IF AnchorTitleAt(d, i) # <<>>
       THEN Live(d, i + AnchorLen(AnchorTitleAt(d, i)))
  ELSE IF EntityAt(d, i) # {}
       THEN Live(d, i + Len((CHOOSE e \in EntityAt(d, i) : TRUE)[2]))
  ELSE IF IsSpecial(d[i]) THEN <<d[i]>> \o Live(d, i + 1)
  ELSE Live(d, i + 1)

RECURSIVE Decoded(_, _)
\* The characters the entities of d stand for, in order, from i on.
Decoded(d, i) ==
  IF i > Len(d) THEN <<>>
  ELSE IF AnchorTitleAt(d, i) # <<>>
       THEN Decoded(d, i + AnchorLen(AnchorTitleAt(d, i)))
  ELSE IF EntityAt(d, i) # {}
       THEN LET e == CHOOSE e \in EntityAt(d, i) : TRUE
            IN <<e[1]>> \o Decoded(d, i + Len(e[2]))
  ELSE Decoded(d, i + 1)

RECURSIVE Unlink(_, _)
\* d from i on with every anchor <a href="/view/T">T</a> put back as [T].
Unlink(d, i) ==
  IF i > Len(d) THEN <<>>
  ELSE IF AnchorTitleAt(d, i) # <<>>
       THEN LET t == AnchorTitleAt(d, i)
            IN <<"[">> \o t \o <<"]">> \o Unlink(d, i + AnchorLen(t))
  ELSE <<d[i]>> \o Unlink(d, i + 1)

\* The anchors of d: the positions where one starts.
AnchorsOf(d) == {i \in 1..Len(d) : AnchorTitleAt(d, i) # <<>>}

\* The markers of s, as the grammar states them: a [ at i and a ] at j with
\* one or more characters between them, all of [a-zA-Z0-9].
Markers(s) ==
  {ij \in (1..Len(s)) \X (1..Len(s)) :
     /\ ij[1] + 1 < ij[2]
     /\ s[ij[1]] = "["
     /\ s[ij[2]] = "]"
     /\ \A k \in (ij[1] + 1)..(ij[2] - 1) : s[k] \in Lower \cup Upper \cup Digit}

SeeHome == <<"S","e","e"," ","[","H","o","m","e","]"," ","a","n","d"," ",
             "[","P","a","g","e","2","]",".">>
SeeHomeDisplay ==
  <<"S","e","e"," ">>
  \o <<"<","a"," ","h","r","e","f","=","\"","/","v","i","e","w","/",
       "H","o","m","e","\"",">","H","o","m","e","<","/","a",">">>
  \o <<" ","a","n","d"," ">>
  \o <<"<","a"," ","h","r","e","f","=","\"","/","v","i","e","w","/",
       "P","a","g","e","2","\"",">","P","a","g","e","2","<","/","a",">">>
  \o <<".">>
ScriptX == <<"<","s","c","r","i","p","t",">","[","X","]",
             "<","/","s","c","r","i","p","t",">">>
Nested == <<"[","[","a","]","]","'","[","]">>

\* C1: the display body holds no live markup but the generated anchors:
\* outside the anchors <a href="/view/T">T</a> (T non-empty, alphanumeric)
\* no <, >, ', " occurs and every & starts an entity, the entities are, in
\* order, the <, >, &, ' and " of the raw body, and there is one anchor for
\* each marker matched.
C1_NoLiveMarkup ==
  stage = "linked" =>
    /\ Live(displayBody, 1) = <<>>
    /\ Decoded(displayBody, 1) = SelectSeq(rawBody, IsSpecial)
    /\ Cardinality(AnchorsOf(displayBody)) = Len(links)

C1_Witness ==
  /\ stage = "linked"
  /\ rawBody = ScriptX
  /\ Len(links) = 1
  /\ Len(Decoded(displayBody, 1)) = 4

\* C2: the display body is the escaped text with each detected marker [T]
\* replaced by exactly <a href="/view/T">T</a> and everything else copied in
\* order: putting [T] back for every anchor gives the escaped text, there is
\* one anchor per marker, a body without brackets renders as its escaped
\* form, and "See [Home] and [Page2]." renders as the two-anchor text.
C2_Substitution ==
  stage = "linked" =>
    /\ Unlink(displayBody, 1) = escapedBody
    /\ Cardinality(AnchorsOf(displayBody)) = Len(links)
    /\ Len(links) = Cardinality(Markers(escapedBody))
    /\ \A k \in 1..Len(links) :
         AnchorTitleAt(displayBody,
           CHOOSE i \in AnchorsOf(displayBody) :
             Cardinality({j \in AnchorsOf(displayBody) : j < i}) = k - 1)
         = links[k].title
    /\ (\A i \in 1..Len(rawBody) : rawBody[i] \notin {"[", "]"})
         => displayBody = escapedBody
    /\ rawBody = SeeHome => displayBody = SeeHomeDisplay

C2_Witness ==
  /\ stage = "linked"
  /\ rawBody = SeeHome
  /\ Len(links) = 2
  /\ displayBody = SeeHomeDisplay

\* C3: the matches are exactly the markers of the escaped text (a [, one or
\* more alphanumerics, a ]), visited left to right without overlap, each with
\* the enclosed run as its title; text with no marker ([] and [a b]
\* included) is left as it is.
C3_LinkDetector ==
  stage = "linked" =>
    /\ {<<links[k].start, links[k].end>> : k \in 1..Len(links)}
         = Markers(escapedBody)
    /\ \A k \in 1..Len(links) :
         /\ links[k].title
              = SubSeq(escapedBody, links[k].start + 1, links[k].end - 1)
         /\ k > 1 => links[k].start > links[k - 1].end
    /\ Markers(escapedBody) = {} =>
         links = <<>> /\ displayBody = escapedBody
    /\ rawBody \in {<<"[", "]">>, <<"[", "a", " ", "b", "]">>} =>
         links = <<>> /\ displayBody = rawBody

C3_Witness ==
  /\ stage = "linked"
  /\ rawBody = Nested
  /\ Len(links) = 1
  /\ links[1].start = 2
  /\ links[1].title = <<"a">>

\* ------------------------------------------- properties of the server ---
Quiet == \A w \in Workers : inflight[w] = None

\* A title as the router promises it: non-empty, every character of
\* [a-zA-Z0-9].
IsTitle(t) ==
  Len(t) >= 1 /\ \A i \in 1..Len(t) : t[i] \in Lower \cup Upper \cup Digit

\* A path of the shape ^/(edit|save|view)/([a-zA-Z0-9]+)$.
IsValidPath(path) ==
  \E pre \in {ViewPrefix, EditPrefix, SavePrefix} :
    /\ Len(path) > Len(pre)
    /\ \A i \in 1..Len(pre) : path[i] = pre[i]
    /\ IsTitle([i \in 1..(Len(path) - Len(pre)) |-> path[Len(pre) + i]])

UnderHandledPrefix(path) ==
  \E pre \in {ViewPrefix, EditPrefix, SavePrefix} :
    Len(path) >= Len(pre) /\ \A i \in 1..Len(pre) : path[i] = pre[i]

\* The step answers a request with a response of handler fn, without
\* leaving a save in flight.
Answers(fn) ==
  served' = served + 1 /\ inflight' = inflight /\ resp'.fn = fn

RECURSIVE Unrender(_, _)
\* The text a browser shows for d from i on, with [T] for each anchor.
Unrender(d, i) ==
  IF i > Len(d) THEN <<>>
  ELSE IF AnchorTitleAt(d, i) # <<>>
       THEN LET t == AnchorTitleAt(d, i)
            IN <<"[">> \o t \o <<"]">> \o Unrender(d, i + AnchorLen(t))
  ELSE IF EntityAt(d, i) # {}
       THEN LET e == CHOOSE e \in EntityAt(d, i) : TRUE
            IN <<e[1]>> \o Unrender(d, i + Len(e[2]))
  ELSE <<d[i]>> \o Unrender(d, i + 1)

\* d is the display of body: no live markup, one anchor per marker, and the
\* text shown is the body.
IsDisplayOf(d, body) ==
  /\ Live(d, 1) = <<>>
  /\ Unrender(d, 1) = body
  /\ Cardinality(AnchorsOf(d)) = Cardinality(Markers(body))

\* C4: between sequential requests, what is stored for a title is the body
\* of the most recent successful save to it, and nothing if no save to it
\* has succeeded.
C4_StoredIsLastSave ==
  (serial /\ Quiet) => \A n \in ServerFiles : files[n] = lastSaved[n]

\* C5: when saves of one title overlapped and all completed without error,
\* the content the last of them leaves is the body of one of them.
C5_LastWriterWins ==
  [][\A w \in Workers :
       (/\ inflight[w] # None
        /\ inflight'[w] = None
        /\ OthersOn(FileName(inflight[w][1].title), w) = {}
        /\ group[FileName(inflight[w][1].title)].n >= 2
        /\ ~group[FileName(inflight[w][1].title)].failed
        /\ ~resp'.err)
       => files'[FileName(inflight[w][1].title)]
            \in {Some(b) : b \in group[FileName(inflight[w][1].title)].bodies}
    ]_vars

\* C6: an edit of a title whose load fails is answered with the "edit"
\* layout of a page with that title, an empty body and no display body,
\* never with an error or a redirect; the edit leaves storage as it is, and
\* a missing file comes to exist only through a save of its title.
C6_EditMissing ==
  /\ [](resp.fn = "editHandler" /\ resp.loaded = None =>
          /\ resp.kind = "render"
          /\ resp.status = 200
          /\ resp.tmpl = "edit"
          /\ resp.page = [Title |-> resp.title, Body |-> <<>>,
                          DisplayBody |-> <<>>])
  /\ [][/\ Answers("editHandler") => files' = files
        /\ \A n \in FileNames :
             files[n] = None /\ files'[n] # None =>
               \E w \in Workers :
                 /\ inflight[w] = None
                 /\ inflight'[w] # None
                 /\ FileName(inflight'[w][1].title) = n
       ]_vars

C6_Witness ==
  /\ resp.fn = "editHandler"
  /\ resp.loaded = None
  /\ resp.kind = "render"
  /\ resp.title = <<"a", "a">>
  /\ files[FileName(<<"a", "a">>)] = None
  /\ files[FileName(<<"a">>)] # None

\* C7: a failed storage write ends the save request with a 500 and never
\* with the redirect, and no caller of save goes on as if the page had been
\* persisted: after save returned an error, main neither loads nor prints.
C7_WriteFailureSurfaced ==
  /\ resp.fn = "saveHandler" /\ resp.err =>
       resp.kind = "error" /\ resp.status = 500
  /\ cliErr => cliPc \notin {"load", "exit", "panic"}

\* The parts of C8 that do not concern the answer to a rejected path: every
\* handler is called with a title of [a-zA-Z0-9]+ and a path validPath
\* matches, so every file read or written is data/<title>.txt for such a
\* title; the index redirect leads to a valid path.
TitlesValidated ==
  /\ resp.fn \in {"viewHandler", "editHandler", "saveHandler"} =>
       IsTitle(resp.title) /\ IsValidPath(resp.path)
  /\ \A w \in Workers : inflight[w] # None =>
       IsTitle(inflight[w][1].title) /\ IsValidPath(inflight[w][1].path)
  /\ \A n \in FileNames : files[n] # None =>
       \E r \in Rests : IsTitle(r) /\ n = FileName(r)
  /\ resp.fn = "indexHandler" =>
       resp.kind = "redirect" /\ IsValidPath(resp.location)

\* The step answers a request whose path is under /view/, /edit/ or /save/
\* and does not match validPath.
AnswersRejected ==
  /\ served' = served + 1
  /\ inflight' = inflight
  /\ UnderHandledPrefix(resp'.path)
  /\ ~IsValidPath(resp'.path)

\* A path without repeated slashes.
IsClean(path) ==
  \A i \in 1..(Len(path) - 1) : ~(path[i] = "/" /\ path[i + 1] = "/")

\* C8 as claimed: handlers are called with titles of [a-zA-Z0-9]+ only, and
\* a path under /view/, /edit/ or /save/ that does not match validPath is
\* answered 404 with no handler called and storage untouched.
C8_RejectedIsNotFound ==
  /\ [](/\ TitlesValidated
        /\ resp.kind # "none" /\ UnderHandledPrefix(resp.path)
             /\ ~IsValidPath(resp.path) =>
             resp.kind = "notfound" /\ resp.status = 404 /\ resp.fn = "none")
  /\ [][AnswersRejected => files' = files /\ resp'.fn = "none"]_vars

\* C8, amended: handlers are called with titles of [a-zA-Z0-9]+ only, and a
\* path under /view/, /edit/ or /save/ that does not match validPath is
\* answered 404 when it is clean and 301 to its cleaned form when it is not;
\* either way no handler is called and storage is untouched.
C8_RouterValidates ==
  /\ [](/\ TitlesValidated
        /\ resp.kind # "none" /\ UnderHandledPrefix(resp.path)
             /\ ~IsValidPath(resp.path) =>
             /\ resp.fn = "none"
             /\ IF IsClean(resp.path)
                THEN resp.kind = "notfound" /\ resp.status = 404
                ELSE /\ resp.kind = "redirect"
                     /\ resp.status = 301
                     /\ IsClean(resp.location)
                     /\ UnderHandledPrefix(resp.location))
  /\ [][AnswersRejected => files' = files /\ resp'.fn = "none"]_vars

C8_Witness ==
  /\ resp.kind = "notfound"
  /\ resp.path = SavePrefix \o <<"a", "-">>
  /\ files[FileName(<<"a">>)] # None
  /\ files[FileName(<<"a", "-">>)] = None

C10_ReadersSeeWholeBodies ==
  [][(/\ served' = served + 1
      /\ inflight' = inflight
      /\ resp'.fn \in {"viewHandler", "editHandler"}
      /\ WritersOn(FileName(resp'.title)) # {})
     => resp'.loaded \in
          {Some(b) : b \in group[FileName(resp'.title)].bodies}
            \cup {group[FileName(resp'.title)].before}
    ]_vars
=============================================================================
